---- MODULE Spec2Model ----
(***************************************************************************)
(* Model of the Home component (HDR video converter): the engine load      *)
(* effect, file selection, the conversion job (processVideo) with its      *)
(* finally-cleanup, and the engine log callback.                           *)
(*                                                                         *)
(* Every action is one synchronous run of a handler, an effect or an async *)
(* continuation, together with the render that commits its state updates.  *)
(* The passive effect that a render schedules (useEffect on [stage]) runs  *)
(* as its own step, RunEffect, after the commit.                           *)
(***************************************************************************)
EXTENDS Integers, Sequences, FiniteSets, TLC

\* ---- bounds of the model ----
MaxLoads == 2          \* engine initialization attempts
MaxJobs  == 2          \* conversion jobs (activations of processVideo)
MaxFiles == 1          \* distinct source files the user can pick
MaxLines == 27         \* log lines between two resets (LogSpec)
MaxEmit  == 2          \* log lines between two resets (Spec)

\* ---- program constants ----
LogKeep == 24          \* prev.slice(-24)

Stages == {"idle", "loading-ffmpeg", "ready", "processing", "completed", "error"}

LoadIds == 1..MaxLoads
JobIds  == 1..MaxJobs

VARIABLES
    stage,          \* useState<Stage>
    ffmpegRef,      \* ffmpegRef.current: 0 = null, else the load that set it
    logMessages,    \* useState<string[]>
    selectedFile,   \* useState<File|null>: 0 = null
    outputUrl,      \* useState<string|null>: 0 = null, else the object URL
    errorMessage,   \* useState<string|null>: "null", "init", "convert"
    effectPending,  \* the [stage] effect of the last commit has not run yet
    loads,          \* position of every activation of loadFFmpeg
    jobs,           \* position of every activation of processVideo
    delInCalls,     \* per job: calls of ffmpeg.deleteFile(inputName)
    delOutCalls,    \* per job: calls of ffmpeg.deleteFile(outputName)
    fsIn,           \* engine FS: job that wrote 'input-video.mp4', 0 = absent
    fsOut,          \* engine FS: job that produced 'hdr-output.mp4', 0 = absent
    created,        \* object URLs made by URL.createObjectURL
    revoked,        \* object URLs passed to URL.revokeObjectURL
    intensity,      \* useState(1.25), in hundredths
    toneMapping,    \* useState<'hable' | 'mobius' | 'reinhard'>('hable')
    closure,        \* intensity and toneMapping as the running processVideo sees them
    command,        \* the filter graph of the last ffmpeg.exec(command), <<>> = no call yet
    delivered,      \* lines delivered to the callback since the last reset
    mounted,        \* the component is mounted (the session has not ended)
    lastOp          \* what the last step was: a user request ("select", "convert", "adjust"),
                    \* a deleteFile rejection ignored by its catch ("swallowed"),
                    \* or another "internal" step (effect, continuation, log line)

vars == <<stage, ffmpegRef, logMessages, selectedFile, outputUrl, errorMessage,
          effectPending, loads, jobs, delInCalls, delOutCalls, fsIn, fsOut,
          created, revoked, intensity, toneMapping, closure, command,
          delivered, mounted, lastOp>>

uiVars   == <<stage, logMessages, selectedFile, outputUrl, errorMessage>>
jobVars  == <<jobs, delInCalls, delOutCalls, fsIn, fsOut>>
urlVars  == <<created, revoked>>
toneVars == <<intensity, toneMapping>>
cmdVars  == <<closure, command>>

Min(a, b) == IF a < b THEN a ELSE b

\* Array.prototype.slice(-n): the last n elements, or all when fewer
SliceLast(s, n) == SubSeq(s, Len(s) - Min(Len(s), n) + 1, Len(s))

InFlightLoads == {k \in LoadIds : loads[k] \in {"import", "load"}}
StartedJobs   == {j \in JobIds : jobs[j] # "none"}
RunningJobs   == {j \in JobIds : jobs[j] \in {"write", "exec", "read"}}

Init ==
    /\ stage = "idle"
    /\ ffmpegRef = 0
    /\ logMessages = <<>>
    /\ selectedFile = 0
    /\ outputUrl = 0
    /\ errorMessage = "null"
    /\ effectPending = TRUE
    /\ loads = [k \in LoadIds |-> "none"]
    /\ jobs = [j \in JobIds |-> "none"]
    /\ delInCalls = [j \in JobIds |-> 0]
    /\ delOutCalls = [j \in JobIds |-> 0]
    /\ fsIn = 0
    /\ fsOut = 0
    /\ created = {}
    /\ revoked = {}
    /\ intensity = 125
    /\ toneMapping = "hable"
    /\ closure = <<>>
    /\ command = <<>>
    /\ delivered = <<>>
    /\ mounted = TRUE
    /\ lastOp = "internal"

\* A commit that changed stage schedules the [stage] effect again.
Scheduled(newStage) == effectPending \/ newStage # stage


\* ---------------------------------------------------------------------
\* Engine load: the effect on [stage] and the activations of loadFFmpeg
\* ---------------------------------------------------------------------

\* if (ffmpegRef.current || stage === 'loading-ffmpeg') return;
LoadGuardNoStage(ref, st) == ref # 0
LoadGuardNoRef(ref, st) == st = "loading-ffmpeg"
LoadGuard(ref, st) == ref # 0 \/ st = "loading-ffmpeg"

\* useEffect(() => { void loadFFmpeg(); }, [stage]) up to its first await
RunEffect ==
    /\ mounted
    /\ UNCHANGED <<mounted, toneVars, cmdVars>>
    /\ effectPending
    /\ lastOp' = "internal"
    /\ IF LoadGuard(ffmpegRef, stage)
       THEN /\ effectPending' = FALSE
            /\ UNCHANGED <<stage, loads>>
       ELSE \E k \in LoadIds :
            /\ loads[k] = "none"
            /\ \A i \in LoadIds : i < k => loads[i] # "none"
            /\ stage' = "loading-ffmpeg"
            /\ loads' = [loads EXCEPT ![k] = "import"]
            /\ effectPending' = Scheduled("loading-ffmpeg")
    /\ UNCHANGED <<ffmpegRef, logMessages, selectedFile, outputUrl, errorMessage>>
    /\ UNCHANGED <<jobVars, urlVars, delivered>>

\* the imports resolved: new FFmpeg(); ffmpeg.on('log', ...); ffmpeg.load(...) is awaited
LoadImported(k) ==
    /\ mounted
    /\ UNCHANGED <<mounted, toneVars, cmdVars>>
    /\ loads[k] = "import"
    /\ loads' = [loads EXCEPT ![k] = "load"]
    /\ lastOp' = "internal"
    /\ UNCHANGED <<uiVars, ffmpegRef, effectPending, jobVars, urlVars, delivered>>

\* ffmpeg.load resolved: ffmpegRef.current = ffmpeg; setStage('ready')
LoadResolved(k) ==
    /\ mounted
    /\ UNCHANGED <<mounted, toneVars, cmdVars>>
    /\ loads[k] = "load"
    /\ loads' = [loads EXCEPT ![k] = "ok"]
    /\ ffmpegRef' = k
    /\ stage' = "ready"
    /\ effectPending' = Scheduled("ready")
    /\ lastOp' = "internal"
    /\ UNCHANGED <<logMessages, selectedFile, outputUrl, errorMessage>>
    /\ UNCHANGED <<jobVars, urlVars, delivered>>

\* an import or ffmpeg.load rejected: the catch block
LoadRejected(k) ==
    /\ mounted
    /\ UNCHANGED <<mounted, toneVars, cmdVars>>
    /\ loads[k] \in {"import", "load"}
    /\ loads' = [loads EXCEPT ![k] = "failed"]
    /\ errorMessage' = "init"
    /\ stage' = "error"
    /\ effectPending' = Scheduled("error")
    /\ lastOp' = "internal"
    /\ UNCHANGED <<ffmpegRef, logMessages, selectedFile, outputUrl>>
    /\ UNCHANGED <<jobVars, urlVars, delivered>>

\* ---------------------------------------------------------------------
\* Engine log callback
\* ---------------------------------------------------------------------

\* setLogMessages(prev => [...prev.slice(-24), message])
AppendLogOffByOne(prev, message) == Append(SliceLast(prev, LogKeep + 1), message)
AppendLog(prev, message) == Append(SliceLast(prev, LogKeep), message)

\* The text of the next line: lines are told apart by the job they are
\* emitted under and their position since the buffer was last reset.
NextLine == [job |-> Cardinality(StartedJobs), seq |-> Len(delivered) + 1]

\* The engine emits a line: any FFmpeg instance whose 'log' listener is
\* registered (loading or loaded) delivers it.
LogLine(limit) ==
    /\ mounted
    /\ UNCHANGED <<mounted, toneVars, cmdVars>>
    /\ \E k \in LoadIds : loads[k] \in {"load", "ok"}
    /\ Len(delivered) < limit
    /\ logMessages' = AppendLog(logMessages, NextLine)
    /\ delivered' = Append(delivered, NextLine)
    /\ lastOp' = "internal"
    /\ UNCHANGED <<stage, selectedFile, outputUrl, errorMessage>>
    /\ UNCHANGED <<ffmpegRef, effectPending, loads, jobVars, urlVars>>

\* ---------------------------------------------------------------------
\* File selection
\* ---------------------------------------------------------------------

isProcessing(st) == st = "processing"

isReadyOrProcessing(st) == st \in {"ready", "completed", "idle", "error", "processing"}
isReady(st) == st \in {"ready", "completed", "idle", "error"}

\* <input type="file" disabled={!isReady} onChange={handleFileChange}>
FileInputDisabled == ~isReady(stage)

\* setOutputUrl(previous => { if (previous) URL.revokeObjectURL(previous); return null; })
RevokeNothing(previous, rev) == rev
RevokePrevious(previous, rev) == IF previous # 0 THEN rev \cup {previous} ELSE rev

\* ... return null: the output URL the selection leaves in the state
UrlAfterSelectKept(previous) == previous
UrlAfterSelect(previous) == 0

\* setStage(ffmpegRef.current ? 'ready' : stage)
StageAfterSelect(ref, st) == IF ref # 0 THEN "ready" ELSE st

\* The user picks file f in the file input; the handler ignores an event
\* without a file (f = 0).  A disabled input fires no change event, and
\* neither does a cancelled dialog.
SelectFile(f) ==
    /\ mounted
    /\ UNCHANGED <<mounted, toneVars, cmdVars>>
    /\ lastOp' = "select"
    /\ IF ~FileInputDisabled /\ f # 0
       THEN /\ selectedFile' = f
            /\ revoked' = RevokePrevious(outputUrl, revoked)
            /\ outputUrl' = UrlAfterSelect(outputUrl)
            /\ stage' = StageAfterSelect(ffmpegRef, stage)
            /\ effectPending' = Scheduled(StageAfterSelect(ffmpegRef, stage))
       ELSE UNCHANGED <<selectedFile, revoked, outputUrl, stage, effectPending>>
    /\ UNCHANGED <<logMessages, errorMessage, ffmpegRef, loads, jobVars, created>>
    /\ UNCHANGED delivered

\* ---------------------------------------------------------------------
\* Number arithmetic
\* ---------------------------------------------------------------------

\*   intensity is a JavaScript Number, an IEEE-754 binary64
\* value, and lines 120-123 and 133 compute with it and format the results
\* with toFixed(2).  The values are computed here bit for bit: a Number is a
\* sign, a 53-bit significand m and an exponent e (value m * 2^e), held as an
\* exact natural number in limbs of LimbBits bits, least significant first.
\* Every result is rounded to nearest, ties to even.  All values that occur
\* are normal numbers near 1, so subnormals, infinities and NaN are left out.
LimbBits == 15
LimbBase == 2^LimbBits
MantBits == 53

Max(a, b) == IF a > b THEN a ELSE b
Limb(x, i) == IF i <= Len(x) THEN x[i] ELSE 0
Zeros(n) == [i \in 1..n |-> 0]

RECURSIVE Trim(_)
Trim(x) == IF x # <<>> /\ x[Len(x)] = 0 THEN Trim(SubSeq(x, 1, Len(x) - 1)) ELSE x

RECURSIVE Big(_)
Big(n) == IF n = 0 THEN <<>> ELSE <<n % LimbBase>> \o Big(n \div LimbBase)

RECURSIVE Small(_)
Small(x) == IF x = <<>> THEN 0 ELSE x[1] + LimbBase * Small(Tail(x))

RECURSIVE AddCarry(_, _, _, _)
AddCarry(x, y, i, c) ==
    IF i > Max(Len(x), Len(y))
    THEN IF c = 0 THEN <<>> ELSE <<c>>
    ELSE LET s == Limb(x, i) + Limb(y, i) + c
         IN  <<s % LimbBase>> \o AddCarry(x, y, i + 1, s \div LimbBase)

BigAdd(x, y) == AddCarry(x, y, 1, 0)

\* x - y for x >= y
RECURSIVE SubBorrow(_, _, _, _)
SubBorrow(x, y, i, b) ==
    IF i > Len(x)
    THEN <<>>
    ELSE LET d == Limb(x, i) - Limb(y, i) - b
         IN  <<IF d < 0 THEN d + LimbBase ELSE d>>
                 \o SubBorrow(x, y, i + 1, IF d < 0 THEN 1 ELSE 0)

BigSub(x, y) == Trim(SubBorrow(x, y, 1, 0))

\* x * d for d <= LimbBase
RECURSIVE MulCarry(_, _, _, _)
MulCarry(x, d, i, c) ==
    IF i > Len(x)
    THEN IF c = 0 THEN <<>> ELSE <<c>>
    ELSE LET p == x[i] * d + c
         IN  <<p % LimbBase>> \o MulCarry(x, d, i + 1, p \div LimbBase)

BigMulSmall(x, d) == Trim(MulCarry(x, d, 1, 0))

RECURSIVE MulFrom(_, _, _)
MulFrom(x, y, i) ==
    IF i > Len(y)
    THEN <<>>
    ELSE BigAdd(Zeros(i - 1) \o BigMulSmall(x, y[i]), MulFrom(x, y, i + 1))

BigMul(x, y) == Trim(MulFrom(x, y, 1))

\* floor(x / d) for d <= LimbBase, from the top limb down
RECURSIVE DivSmallFrom(_, _, _, _)
DivSmallFrom(x, d, i, r) ==
    IF i = 0
    THEN <<>>
    ELSE LET t == r * LimbBase + x[i]
         IN  DivSmallFrom(x, d, i - 1, t % d) \o <<t \div d>>

BigDivSmall(x, d) == Trim(DivSmallFrom(x, d, Len(x), 0))

\* x * 2^n and floor(x / 2^n)
Shl(x, n) == IF x = <<>> THEN <<>> ELSE Zeros(n \div LimbBits) \o BigMulSmall(x, 2^(n % LimbBits))
Shr(x, n) ==
    IF n \div LimbBits >= Len(x)
    THEN <<>>
    ELSE BigDivSmall(SubSeq(x, n \div LimbBits + 1, Len(x)), 2^(n % LimbBits))

RECURSIVE SmallBitLen(_)
SmallBitLen(n) == IF n = 0 THEN 0 ELSE 1 + SmallBitLen(n \div 2)

BitLen(x) == IF x = <<>> THEN 0 ELSE (Len(x) - 1) * LimbBits + SmallBitLen(x[Len(x)])
Bit(x, i) == (Limb(x, (i - 1) \div LimbBits + 1) \div 2^((i - 1) % LimbBits)) % 2

RECURSIVE CmpFrom(_, _, _)
CmpFrom(x, y, i) ==
    IF i = 0 THEN 0
    ELSE IF x[i] # y[i] THEN (IF x[i] < y[i] THEN -1 ELSE 1)
    ELSE CmpFrom(x, y, i - 1)

BigCmp(x, y) ==
    IF Len(x) # Len(y) THEN (IF Len(x) < Len(y) THEN -1 ELSE 1) ELSE CmpFrom(x, y, Len(x))

\* quotient and remainder of x by y, one bit of x at a time from the top:
\* bits hi down to lo of x are brought down onto the remainder r
RECURSIVE DivBits(_, _, _, _, _, _)
DivBits(x, y, hi, lo, q, r) ==
    IF hi < lo THEN [quot |-> q, rem |-> r]
    ELSE IF hi = lo
    THEN LET r2 == BigAdd(BigMulSmall(r, 2), Big(Bit(x, hi)))
             ge == BigCmp(r2, y) >= 0
         IN  [quot |-> BigAdd(BigMulSmall(q, 2), Big(IF ge THEN 1 ELSE 0)),
              rem  |-> IF ge THEN BigSub(r2, y) ELSE r2]
    ELSE LET mid == (hi + lo) \div 2
             top == DivBits(x, y, hi, mid + 1, q, r)
         IN  IF top.rem = <<>> /\ top.quot = <<>>    \* settles the upper bits first
             THEN DivBits(x, y, mid, lo, <<>>, <<>>)
             ELSE DivBits(x, y, mid, lo, top.quot, top.rem)

BigDivMod(x, y) == DivBits(x, y, BitLen(x), 1, <<>>, <<>>)

\* the binary64 magnitude nearest to n * 2^e, ties to even
RECURSIVE RoundToDouble(_, _)
RoundToDouble(n, e) ==
    LET len == BitLen(n) IN
    IF len = 0 THEN [m |-> <<>>, e |-> 0]
    ELSE IF len <= MantBits THEN [m |-> Shl(n, MantBits - len), e |-> e - (MantBits - len)]
    ELSE LET s    == len - MantBits
             q    == Shr(n, s)
             r    == BigSub(n, Shl(q, s))
             c    == BigCmp(r, Shl(<<1>>, s - 1))
             up   == c > 0 \/ (c = 0 /\ Bit(q, 1) = 1)
         IN  IF up THEN RoundToDouble(BigAdd(q, <<1>>), e + s) ELSE [m |-> q, e |-> e + s]

\* the binary64 magnitude nearest to (n / d) * 2^e: the quotient is taken with
\* three bits to spare and a sticky bit for a non-zero remainder
RoundRatio(n, d, e) ==
    LET k  == Max(0, MantBits + 3 + BitLen(d) - BitLen(n))
        qr == BigDivMod(Shl(n, k), d)
    IN  RoundToDouble(BigAdd(BigMulSmall(qr.quot, 2), Big(IF qr.rem = <<>> THEN 0 ELSE 1)),
                      e - k - 1)

WithSign(neg, d) == [neg |-> neg /\ d.m # <<>>, m |-> d.m, e |-> d.e]

\* the Number a decimal literal or parseFloat gives for n / d
Lit(n, d) == WithSign(FALSE, RoundRatio(Big(n), Big(d), 0))

DNeg(a) == WithSign(~a.neg, a)
DMul(a, b) == WithSign(a.neg # b.neg, RoundToDouble(BigMul(a.m, b.m), a.e + b.e))
DDiv(a, b) == WithSign(a.neg # b.neg, RoundRatio(a.m, b.m, a.e - b.e))
DAdd(a, b) ==
    LET e == IF a.e < b.e THEN a.e ELSE b.e
        x == Shl(a.m, a.e - e)
        y == Shl(b.m, b.e - e)
    IN  IF a.neg = b.neg THEN WithSign(a.neg, RoundToDouble(BigAdd(x, y), e))
        ELSE IF BigCmp(x, y) >= 0 THEN WithSign(a.neg, RoundToDouble(BigSub(x, y), e))
        ELSE WithSign(b.neg, RoundToDouble(BigSub(y, x), e))
DSub(a, b) == DAdd(a, DNeg(b))

\* Number.prototype.toFixed(2), as the integer n of hundredths it prints: the
\* n for which n / 100 - x is closest to zero, the larger n of two
\* (ToFixed2Truncating cuts the further digits off instead)
ToFixed2Truncating(x) ==
    LET n100 == BigMulSmall(x.m, 100)
        n    == IF x.e >= 0 THEN Shl(n100, x.e) ELSE Shr(n100, -x.e)
    IN  IF x.neg THEN -Small(n) ELSE Small(n)
ToFixed2(x) ==
    LET n100 == BigMulSmall(x.m, 100)
        n    == IF x.e >= 0 THEN Shl(n100, x.e)
                ELSE Shr(BigAdd(Shl(n100, 1), Shl(<<1>>, -x.e)), 1 - x.e)
    IN  IF x.neg THEN -Small(n) ELSE Small(n)

\* ---------------------------------------------------------------------
\* Tone controls and the filter graph
\* ---------------------------------------------------------------------

\* <input type="range" min={1} max={1.7} step={0.05}>, in hundredths
SliderValues == {100 + 5 * k : k \in 0..14}
\* <option value="hable" | "mobius" | "reinhard">
Curves == {"hable", "mobius", "reinhard"}

\* What a change event can carry.  The handlers store parseFloat of the
\* value, and the value, as they come: min, max, step and the option list
\* are attributes of the controls, and no line of the component compares
\* the state with them.
ReportedValues == SliderValues \cup {95, 175, 200}
ReportedCurves == Curves \cup {"linear"}

\* parseFloat(event.target.value) for the decimal string of h hundredths
parseFloat(h) == Lit(h, 100)

\* lines 120-123 and 133: the numbers of the filter graph, as the hundredths
\* toFixed(2) prints
saturation(i) == ToFixed2(i)
contrast(i)   == ToFixed2(DAdd(Lit(9, 10), DMul(DSub(i, Lit(1, 1)), Lit(8, 10))))
highlight(i)  == ToFixed2(DMul(Lit(3, 10), i))
midtones(i)   == ToFixed2(DMul(Lit(2, 10), i))
desat(i)      == ToFixed2(DDiv(Lit(125, 100), i))

Derived(h) ==
    LET i == parseFloat(h)
    IN  [gamma |-> contrast(i), saturation |-> saturation(i), midtones |-> midtones(i),
         highlight |-> highlight(i), desat |-> desat(i)]

\* the numbers for every value the intensity state can hold
DerivedOf == [h \in ReportedValues |-> Derived(h)]

\* The parts of filterComplex that vary: eq=gamma:saturation, the two curves
\* intensities, and tonemap=<curve>:desat.  The rest of the command is fixed text.
filterComplex(c) ==
    [gamma      |-> DerivedOf[c.intensity].gamma,
     saturation |-> DerivedOf[c.intensity].saturation,
     midtones   |-> DerivedOf[c.intensity].midtones,
     highlight  |-> DerivedOf[c.intensity].highlight,
     tonemap    |-> c.toneMapping,
     desat      |-> DerivedOf[c.intensity].desat]

\* onChange={event => setIntensity(parseFloat(event.target.value))}
SetIntensity(v) ==
    /\ mounted
    /\ intensity' = v
    /\ lastOp' = "adjust"
    /\ UNCHANGED <<mounted, toneMapping, cmdVars, uiVars, jobVars, urlVars>>
    /\ UNCHANGED <<ffmpegRef, effectPending, loads, delivered>>

\* onChange={event => setToneMapping(event.target.value as typeof toneMapping)}
SetToneMapping(c) ==
    /\ mounted
    /\ toneMapping' = c
    /\ lastOp' = "adjust"
    /\ UNCHANGED <<mounted, intensity, cmdVars, uiVars, jobVars, urlVars>>
    /\ UNCHANGED <<ffmpegRef, effectPending, loads, delivered>>

\* ---------------------------------------------------------------------
\* Conversion job: processVideo
\* ---------------------------------------------------------------------

\* <button disabled={!selectedFile || !isReady || isProcessing} onClick={processVideo}>
ConvertDisabledOnlyNoFile(file, st) == file = 0
ConvertDisabled(file, st) == file = 0 \/ ~isReady(st) \/ isProcessing(st)

\* if (!ffmpegRef.current || !selectedFile) return;
EntryGuardNoEngine(ref, file) == file = 0
EntryGuard(ref, file) == ref = 0 \/ file = 0

\* setLogMessages([]): the buffer a new job starts with
ResetLogKeep(prev) == prev
ResetLog(prev) == <<>>

\* The user presses the convert button.  A disabled button fires no click;
\* a job that passes the entry guard runs up to its first await.
StartConversion ==
    /\ mounted
    /\ UNCHANGED <<mounted, toneVars, command>>
    /\ lastOp' = "convert"
    /\ IF ~ConvertDisabled(selectedFile, stage) /\ ~EntryGuard(ffmpegRef, selectedFile)
       THEN \E j \in JobIds :
            /\ jobs[j] = "none"
            /\ \A i \in JobIds : i < j => jobs[i] # "none"
            /\ jobs' = [jobs EXCEPT ![j] = "write"]
            /\ stage' = "processing"
            /\ errorMessage' = "null"
            /\ logMessages' = ResetLog(logMessages)
            /\ delivered' = <<>>
            /\ closure' = <<[intensity |-> intensity, toneMapping |-> toneMapping]>>
            /\ effectPending' = Scheduled("processing")
       ELSE UNCHANGED <<jobs, stage, errorMessage, logMessages, delivered, closure, effectPending>>
    /\ UNCHANGED <<selectedFile, outputUrl, ffmpegRef, loads, urlVars>>
    /\ UNCHANGED <<delInCalls, delOutCalls, fsIn, fsOut>>

\* finally { const ffmpeg = ffmpegRef.current; if (ffmpeg) { try { await ffmpeg.deleteFile(inputName) ...
\* the position a job takes on entering the finally block
FinallyEntry(ref) == IF ref # 0 THEN "delIn" ELSE "done"

\* the job's synchronous run from the catch/success point into the finally block
EnterFinally(j) ==
    /\ jobs' = [jobs EXCEPT ![j] = FinallyEntry(ffmpegRef)]
    /\ delInCalls' = [delInCalls EXCEPT ![j] = @ + (IF FinallyEntry(ffmpegRef) = "delIn" THEN 1 ELSE 0)]
    /\ UNCHANGED delOutCalls

\* setStage('error') in the catch block of processVideo
CatchStageStuck(st) == st
CatchStage(st) == "error"

\* catch (error) { setErrorMessage('Conversion failed...'); setStage('error'); } finally ...
JobCatch(j) ==
    /\ errorMessage' = "convert"
    /\ stage' = CatchStage(stage)
    /\ effectPending' = Scheduled(CatchStage(stage))
    /\ EnterFinally(j)
    /\ UNCHANGED <<logMessages, selectedFile, outputUrl, urlVars>>

\* await ffmpeg.writeFile(inputName, await fetchFile(selectedFile)) settles;
\* when it resolves the job builds the command and calls ffmpeg.exec(command)
WriteSettled(j, ok) ==
    /\ mounted
    /\ UNCHANGED <<mounted, toneVars, closure>>
    /\ jobs[j] = "write"
    /\ lastOp' = "internal"
    /\ command' = IF ok /\ closure # <<>> THEN <<filterComplex(closure[1])>> ELSE command
    /\ IF ok
       THEN /\ fsIn' = j
            /\ jobs' = [jobs EXCEPT ![j] = "exec"]
            /\ UNCHANGED <<uiVars, effectPending, delInCalls, delOutCalls, urlVars>>
       ELSE /\ JobCatch(j)
            /\ UNCHANGED fsIn
    /\ UNCHANGED <<fsOut, ffmpegRef, loads, delivered>>

\* await ffmpeg.exec(command) settles; a failed run may leave a partial output file
ExecSettled(j, ok, partial) ==
    /\ mounted
    /\ UNCHANGED <<mounted, toneVars, cmdVars>>
    /\ jobs[j] = "exec"
    /\ ok => fsIn # 0
    /\ ok => partial
    /\ lastOp' = "internal"
    /\ fsOut' = IF partial THEN j ELSE fsOut
    /\ IF ok
       THEN /\ jobs' = [jobs EXCEPT ![j] = "read"]
            /\ UNCHANGED <<uiVars, effectPending, delInCalls, delOutCalls, urlVars>>
       ELSE JobCatch(j)
    /\ UNCHANGED <<fsIn, ffmpegRef, loads, delivered>>

\* const url = URL.createObjectURL(...); setOutputUrl(url);
\* the object URLs revoked when the new one replaces the previous one
RevokeOnReplace(previous, rev) == rev

\* await ffmpeg.readFile(outputName) settles
ReadSettled(j, ok) ==
    /\ mounted
    /\ UNCHANGED <<mounted, toneVars, cmdVars>>
    /\ jobs[j] = "read"
    /\ ok => fsOut # 0
    /\ lastOp' = "internal"
    /\ IF ok
       THEN /\ created' = created \cup {j}
            /\ revoked' = RevokeOnReplace(outputUrl, revoked)
            /\ outputUrl' = j
            /\ stage' = "completed"
            /\ effectPending' = Scheduled("completed")
            /\ EnterFinally(j)
            /\ UNCHANGED <<logMessages, selectedFile, errorMessage>>
       ELSE JobCatch(j)
    /\ UNCHANGED <<fsIn, fsOut, ffmpegRef, loads, delivered>>

\* try { await ffmpeg.deleteFile(inputName); } catch { /* ignore */ } try { await ffmpeg.deleteFile(outputName) ...
\* the position after deleteFile(inputName) settles (rejected: the file did not exist)
AfterDeleteInputAbort(rejected) == IF rejected THEN "done" ELSE "delOut"
AfterDeleteInput(rejected) == "delOut"

\* catch { // ignore }: the stage after a deleteFile call settles
DeleteCatchEscalates(rejected, st) == IF rejected THEN "error" ELSE st
DeleteCatch(rejected, st) == st

\* await ffmpeg.deleteFile(inputName) settles
DeleteInputSettled(j) ==
    /\ mounted
    /\ UNCHANGED <<mounted, toneVars, cmdVars>>
    /\ jobs[j] = "delIn"
    /\ lastOp' = IF fsIn = 0 THEN "swallowed" ELSE "internal"
    /\ fsIn' = 0
    /\ stage' = DeleteCatch(fsIn = 0, stage)
    /\ effectPending' = Scheduled(DeleteCatch(fsIn = 0, stage))
    /\ jobs' = [jobs EXCEPT ![j] = AfterDeleteInput(fsIn = 0)]
    /\ delOutCalls' = [delOutCalls EXCEPT ![j] = @ + (IF AfterDeleteInput(fsIn = 0) = "delOut" THEN 1 ELSE 0)]
    /\ UNCHANGED <<logMessages, selectedFile, outputUrl, errorMessage>>
    /\ UNCHANGED <<delInCalls, fsOut, urlVars, ffmpegRef, loads, delivered>>

\* await ffmpeg.deleteFile(outputName) settles; processVideo returns
DeleteOutputSettled(j) ==
    /\ mounted
    /\ UNCHANGED <<mounted, toneVars, cmdVars>>
    /\ jobs[j] = "delOut"
    /\ lastOp' = IF fsOut = 0 THEN "swallowed" ELSE "internal"
    /\ fsOut' = 0
    /\ stage' = DeleteCatch(fsOut = 0, stage)
    /\ effectPending' = Scheduled(DeleteCatch(fsOut = 0, stage))
    /\ jobs' = [jobs EXCEPT ![j] = "done"]
    /\ UNCHANGED <<logMessages, selectedFile, outputUrl, errorMessage>>
    /\ UNCHANGED <<delInCalls, delOutCalls, fsIn, urlVars, ffmpegRef, loads, delivered>>

\* useEffect(() => () => setOutputUrl(previous => { if (previous) URL.revokeObjectURL(previous); return null; }), [])
RevokeOnUnmountNothing(previous, rev) == rev
RevokeOnUnmount(previous, rev) == IF previous # 0 THEN rev \cup {previous} ELSE rev

\* The component unmounts (the page is left): the cleanup of the [] effect
\* runs and the session is over.
Unmount ==
    /\ mounted
    /\ mounted' = FALSE
    /\ revoked' = RevokeOnUnmount(outputUrl, revoked)
    /\ outputUrl' = 0
    /\ lastOp' = "internal"
    /\ UNCHANGED <<stage, logMessages, selectedFile, errorMessage, effectPending>>
    /\ UNCHANGED <<ffmpegRef, loads, jobVars, created, delivered, toneVars, cmdVars>>

\* The tone controls only choose the numbers of the command; no guard and no
\* state of the job machine reads them.  Spec and LogSpec leave them at their
\* initial values, CompileSpec moves them.
Next ==
    \/ RunEffect
    \/ \E k \in LoadIds : LoadImported(k)
    \/ \E k \in LoadIds : LoadResolved(k)
    \/ \E k \in LoadIds : LoadRejected(k)
    \/ LogLine(MaxEmit)
    \/ \E f \in 1..MaxFiles : SelectFile(f)
    \/ StartConversion
    \/ \E j \in JobIds, ok \in BOOLEAN : WriteSettled(j, ok)
    \/ \E j \in JobIds, ok \in BOOLEAN, partial \in BOOLEAN : ExecSettled(j, ok, partial)
    \/ \E j \in JobIds, ok \in BOOLEAN : ReadSettled(j, ok)
    \/ \E j \in JobIds : DeleteInputSettled(j)
    \/ \E j \in JobIds : DeleteOutputSettled(j)
    \/ Unmount

Spec == Init /\ [][Next]_vars

\* The mounted component with a talkative engine: up to MaxLines lines
\* between two resets of the log buffer.
NextLog ==
    \/ RunEffect
    \/ \E k \in LoadIds : LoadImported(k)
    \/ \E k \in LoadIds : LoadResolved(k)
    \/ \E k \in LoadIds : LoadRejected(k)
    \/ LogLine(MaxLines)
    \/ \E f \in 1..MaxFiles : SelectFile(f)
    \/ StartConversion
    \/ \E j \in JobIds, ok \in BOOLEAN : WriteSettled(j, ok)
    \/ \E j \in JobIds, ok \in BOOLEAN, partial \in BOOLEAN : ExecSettled(j, ok, partial)
    \/ \E j \in JobIds, ok \in BOOLEAN : ReadSettled(j, ok)
    \/ \E j \in JobIds : DeleteInputSettled(j)
    \/ \E j \in JobIds : DeleteOutputSettled(j)

LogSpec == Init /\ [][NextLog]_vars

\* The component up to the hand-over of the command to the engine, with the
\* tone controls in use.
NextCompile ==
    \/ RunEffect
    \/ \E k \in LoadIds : LoadImported(k)
    \/ \E k \in LoadIds : LoadResolved(k)
    \/ \E f \in 1..MaxFiles : SelectFile(f)
    \/ \E v \in ReportedValues : SetIntensity(v)
    \/ \E c \in ReportedCurves : SetToneMapping(c)
    \/ StartConversion
    \/ \E j \in JobIds, ok \in BOOLEAN : WriteSettled(j, ok)

CompileSpec == Init /\ [][NextCompile]_vars

\* Every engine call of a job that is awaited eventually resolves or rejects.
EngineSettles ==
    /\ WF_vars(\E j \in JobIds, ok \in BOOLEAN : WriteSettled(j, ok))
    /\ WF_vars(\E j \in JobIds, ok \in BOOLEAN, partial \in BOOLEAN : ExecSettled(j, ok, partial))
    /\ WF_vars(\E j \in JobIds, ok \in BOOLEAN : ReadSettled(j, ok))
    /\ WF_vars(\E j \in JobIds : DeleteInputSettled(j))
    /\ WF_vars(\E j \in JobIds : DeleteOutputSettled(j))

FairSpec == Spec /\ EngineSettles

TypeOK ==
    /\ stage \in Stages
    /\ ffmpegRef \in 0..MaxLoads
    /\ selectedFile \in 0..MaxFiles
    /\ outputUrl \in 0..MaxJobs
    /\ errorMessage \in {"null", "init", "convert"}
    /\ effectPending \in BOOLEAN
    /\ revoked \subseteq created
    /\ created \subseteq JobIds
    /\ mounted \in BOOLEAN
    /\ lastOp \in {"internal", "select", "convert", "swallowed", "adjust"}
    /\ intensity \in ReportedValues
    /\ toneMapping \in ReportedCurves
    /\ Len(closure) <= 1
    /\ Len(command) <= 1

\* ---------------------------------------------------------------------
\* Properties
\* ---------------------------------------------------------------------

\* C1: every job that passed the entry guard calls deleteFile on the input
\* name and on the output name exactly once each, on success and on failure
\* alike, whether or not the file exists: never more than once, the input
\* deletion on entering the finally block, and both by the time the job is done.
C1_CleanupOncePerJob ==
    \A j \in JobIds :
        /\ jobs[j] \in {"none", "write", "exec", "read"} => delInCalls[j] = 0 /\ delOutCalls[j] = 0
        /\ jobs[j] = "delIn" => delInCalls[j] = 1 /\ delOutCalls[j] = 0
        /\ jobs[j] \in {"delOut", "done"} => delInCalls[j] = 1 /\ delOutCalls[j] = 1

\* a job that succeeded and a job that failed have both finished
C1_Witness ==
    \E j1, j2 \in JobIds :
        /\ jobs[j1] = "done" /\ j1 \in created
        /\ jobs[j2] = "done" /\ j2 \notin created

\* C2: a start-conversion request while a job is Running changes nothing of
\* the job in flight (no new job, no engine call, log buffer and error
\* message untouched), and at most one job is ever between start and outcome.
C2_SingleFlightRun ==
    [][ /\ Cardinality(RunningJobs') <= 1
        /\ (lastOp' = "convert" /\ stage = "processing") =>
              UNCHANGED <<stage, jobs, logMessages, delivered, errorMessage,
                          delInCalls, delOutCalls, fsIn, fsOut, outputUrl>> ]_vars

\* a start request arrived after the running job had passed its first await
C2_Witness ==
    /\ lastOp = "convert"
    /\ stage = "processing"
    /\ \E j \in JobIds : jobs[j] \in {"exec", "read"}

\* C3: every object URL other than the exposed one has been revoked, so an
\* earlier job's handle is revoked by the time a later job's handle is exposed.
C3_PreviousRevoked ==
    \A h \in created : h # outputUrl => h \in revoked

\* C4: once engine initialization has failed (stage 'error', no engine), the
\* state moves to 'loading-ffmpeg' only by a user request, never by itself.
C4_NoAutomaticRetry ==
    [][ (stage = "error" /\ ffmpegRef = 0 /\ stage' = "loading-ffmpeg") =>
            lastOp' # "internal" ]_vars

\* C5: at most one engine initialization is in flight whatever triggers occur
\* while it is pending (the stage stays 'loading-ffmpeg' until it settles),
\* and once loaded the engine reference is the one successful initialization.
C5_SingleFlightLoad ==
    /\ Cardinality(InFlightLoads) <= 1
    /\ InFlightLoads # {} => stage = "loading-ffmpeg" /\ ffmpegRef = 0
    /\ ffmpegRef # 0 =>
          /\ loads[ffmpegRef] = "ok"
          /\ {k \in LoadIds : loads[k] = "ok"} = {ffmpegRef}

\* the effect ran again and a file selection was attempted while a load was pending
C5_Witness ==
    /\ InFlightLoads # {}
    /\ ~effectPending
    /\ lastOp = "select"

\* C6 (as stated): the stage becomes 'processing' only from 'ready' with a file.
C6_RunningOnlyFromReady ==
    [][ (stage' = "processing" /\ stage # "processing") =>
            (stage = "ready" /\ selectedFile # 0) ]_vars

\* C6 (amended): a job starts, and the stage becomes 'processing', only by a
\* start-conversion request in 'ready', 'completed' or 'error' with the engine
\* loaded and a source file present; never in 'idle' or 'loading-ffmpeg', and
\* never without an engine.
C6_RunningOnlyWhenEnabled ==
    [][ (StartedJobs' # StartedJobs \/ (stage' = "processing" /\ stage # "processing")) =>
            /\ lastOp' = "convert"
            /\ stage \in {"ready", "completed", "error"}
            /\ ffmpegRef # 0
            /\ selectedFile # 0 ]_vars

\* a second job was started from 'completed' without selecting a file again
C6_Witness ==
    /\ lastOp = "convert"
    /\ stage = "processing"
    /\ outputUrl # 0
    /\ \E j \in JobIds : jobs[j] = "write"

\* C7: a file selection attempted while a job is Running changes neither the
\* selected file, nor the output handle, nor the stage, nor any job.
C7_SelectWhileRunningRejected ==
    [][ (lastOp' = "select" /\ stage = "processing") =>
            UNCHANGED <<selectedFile, outputUrl, stage, jobs, created, revoked,
                        logMessages, errorMessage, effectPending>> ]_vars

C7_Witness ==
    /\ lastOp = "select"
    /\ stage = "processing"
    /\ RunningJobs # {}

\* C8 (as stated): selecting a file in 'completed', 'error' or 'ready' revokes
\* the exposed output handle, exposes none, and moves the stage to 'ready'.
C8_SelectMovesToReady ==
    [][ (lastOp' = "select" /\ stage \in {"completed", "error", "ready"}) =>
            /\ outputUrl' = 0
            /\ outputUrl # 0 => outputUrl \in revoked'
            /\ stage' = "ready" ]_vars

\* C8 (amended): ... and moves the stage to 'ready' when the engine is loaded;
\* with no engine loaded (initialization failed) the stage is left as it is.
C8_SelectRevokesAndReadies ==
    [][ (lastOp' = "select" /\ stage \in {"completed", "error", "ready"}) =>
            /\ outputUrl' = 0
            /\ outputUrl # 0 => outputUrl \in revoked'
            /\ revoked' \subseteq revoked \cup {outputUrl}
            /\ stage' = IF ffmpegRef # 0 THEN "ready" ELSE stage ]_vars

\* a selection has revoked a live handle and no job has been started since
C8_Witness ==
    /\ lastOp = "select"
    /\ stage = "ready"
    /\ outputUrl = 0
    /\ revoked # {}

\* C9: after n deliveries since the last reset the buffer holds exactly the
\* last min(n, 25) delivered lines in order; it never holds more than 25.
C9_LogBounded ==
    LET n == Len(delivered)
        m == Min(n, 25)
    IN  /\ Len(logMessages) = m
        /\ \A i \in 1..m : logMessages[i] = delivered[n - m + i]

\* more than 25 lines were delivered to a job's buffer: the oldest were dropped
C9_Witness ==
    /\ Len(delivered) > 25
    /\ StartedJobs # {}
    /\ logMessages[1].seq > 1

\* C10: a line is added to the log buffer only while the stage is 'processing'.
C10_CapturedOnlyWhileRunning ==
    [][ (logMessages' # logMessages /\ logMessages' # <<>>) =>
            stage = "processing" ]_vars

\* C11: while a job is Running every line in the log buffer was emitted
\* under that job (after it entered Running): the buffer is reset at the
\* start of every job and nothing older is left in it.
C11_NoLogLeakAcrossJobs ==
    stage = "processing" =>
        \A i \in 1..Len(logMessages) : logMessages[i].job = Cardinality(StartedJobs)

\* a second job is running with lines of its own in the buffer
C11_Witness ==
    /\ stage = "processing"
    /\ Cardinality(StartedJobs) = 2
    /\ logMessages # <<>>

\* C12: the settling of a scratch-file deletion, rejected or not, leaves the
\* job's outcome alone (stage, error message, output handle), and after the
\* deletion of the input name settles the deletion of the output name is called.
C12_DeleteFailureSwallowed ==
    [][ \A j \in JobIds :
          (jobs[j] \in {"delIn", "delOut"} /\ jobs'[j] # jobs[j]) =>
              /\ UNCHANGED <<stage, errorMessage, outputUrl, created, revoked>>
              /\ jobs[j] = "delIn" =>
                    jobs'[j] = "delOut" /\ delOutCalls'[j] = delOutCalls[j] + 1 ]_vars

\* the last deletion of a completed job was rejected and ignored, and the
\* job is still Completed with its output handle
C12_Witness ==
    \E j \in JobIds :
        /\ lastOp = "swallowed"
        /\ \A i \in JobIds : jobs[i] = "done"
        /\ stage = "completed"
        /\ outputUrl = j
        /\ j \notin revoked

\* C14: once the engine reference is set it never changes again, and no
\* activation of loadFFmpeg is started or moves from then on.
C14_EngineLoadedForGood ==
    [][ ffmpegRef # 0 => (ffmpegRef' = ffmpegRef /\ loads' = loads) ]_vars

\* with the engine loaded a job has failed and the effect has run again on
\* the new stage without starting a load
C14_Witness ==
    /\ ffmpegRef # 0
    /\ stage = "error"
    /\ ~effectPending
    /\ \E j \in JobIds : jobs[j] = "done"

\* C18: while an earlier job's deleteFile calls are pending, no later job is
\* writing its input file or executing.
C18_CleanupNeverOverlaps ==
    \A j1, j2 \in JobIds :
        (j1 < j2 /\ jobs[j1] \in {"delIn", "delOut"}) => jobs[j2] \notin {"write", "exec"}

\* C19: the error message is present exactly when the stage is 'error'.
C19_ErrorMessageIffFailed ==
    (errorMessage # "null") <=> (stage = "error")

C20_CompletedExposesLiveHandle ==
    /\ (mounted /\ stage = "completed") => outputUrl # 0
    /\ outputUrl # 0 => (outputUrl \in created /\ outputUrl \notin revoked)

\* a second job has completed after the first job's URL was revoked by a selection
C20_Witness ==
    /\ stage = "completed"
    /\ outputUrl = 2
    /\ 1 \in revoked

\* C13: with every engine call settling, a job that is Running (between its
\* start and its outcome) eventually leaves Running, unless the session ends
\* first; it leaves Running only to 'completed' with its output URL (write,
\* exec and read succeeded) or to 'error' without one, and the stage leaves
\* 'processing' for no other stage.
C13_RunsToOutcome ==
    /\ \A j \in JobIds : (jobs[j] \in {"write", "exec", "read"}) ~>
                            (jobs[j] \notin {"write", "exec", "read"} \/ ~mounted)
    /\ [][ /\ \A j \in JobIds :
                (jobs[j] \in {"write", "exec", "read"} /\ jobs'[j] \notin {"write", "exec", "read"}) =>
                    \/ jobs[j] = "read" /\ j \in created' /\ outputUrl' = j /\ stage' = "completed"
                    \/ j \notin created' /\ stage' = "error" /\ errorMessage' = "convert"
           /\ stage = "processing" => stage' \in {"processing", "completed", "error"} ]_vars

\* one job has completed and a later one has just failed
C13_Witness ==
    \E j1, j2 \in JobIds :
        /\ j1 \in created
        /\ j2 \notin created
        /\ jobs[j2] = "delIn"
        /\ stage = "error"

\* C15: a job whose intensity is outside [1.0, 1.7], or whose curve is not one
\* of the three known ones, fails when it comes to build its command: the
\* stage becomes 'error' with a message, and nothing is passed to ffmpeg.exec.
C15_OutOfRangeRefused ==
    [][ \A j \in JobIds :
            ( /\ jobs[j] = "write" /\ jobs'[j] # "write"
              /\ closure # <<>>
              /\ ~(closure[1].intensity \in 100..170 /\ closure[1].toneMapping \in Curves) )
            => ( /\ command' = command
                 /\ jobs'[j] # "exec"
                 /\ stage' = "error"
                 /\ errorMessage' # "null" ) ]_vars

====
